---- MODULE Spec2Model ----
(***************************************************************************)
(* To-do list store of src/main.py: class Task (one to-do item and its     *)
(* conversion to and from a JSON object) and class TodoList (the list of   *)
(* tasks, loaded from the JSON database file when the object is built and  *)
(* written back in full by every mutating method).                         *)
(*                                                                         *)
(* The database file is modelled by the JSON document it holds (or by its  *)
(* absence, or by content that is not JSON); the text produced by          *)
(* json.dump and read by json.load is library code.  A Python value that   *)
(* can come out of json.load is a record [ty, v]: its type and its         *)
(* literal.  Printed lines are records [msg, index, old, new].             *)
(***************************************************************************)
EXTENDS Integers, Sequences, FiniteSets, TLC

VARIABLES
    storage,     \* content of the database file DATABASE_FILE
    alive,       \* TRUE when a TodoList object exists (its constructor returned)
    items,       \* TodoList.tasks: sequence of Task objects
    called,      \* the method called last
    out,         \* the lines printed by the last call
    ret,         \* the value returned by the last call: << >> is None, <<n>> an int
    raised,      \* the exception that left the last call, "none" if it returned
    failures     \* number of save_tasks calls of this TodoList object that hit IOError

vars == <<storage, alive, items, called, out, ret, raised, failures>>

\* ------------------------------------------------------------------ bounds
\* longest list add_task is allowed to build in the model
MaxTasks == 2
\* most write failures one TodoList object meets in the model
MaxFailures == 1

\* descriptions the caller types
Texts == {"a", "b"}
\* positions the caller passes: below, inside and above the valid range
Positions == (0 - 1) .. (MaxTasks + 1)

\* ----------------------------------------------------------- Python values
Str(s) == [ty |-> "str", v |-> s]
True == [ty |-> "bool", v |-> "True"]
False == [ty |-> "bool", v |-> "False"]
None == [ty |-> "NoneType", v |-> "None"]
IntVal == [ty |-> "int", v |-> "7"]

\* bool(x) of Python, used by `not task.completed` and the status line
Truthy(x) ==
    CASE x.ty = "bool" -> x.v = "True"
      [] x.ty = "str" -> x.v # ""
      [] x.ty = "int" -> x.v # "0"
      [] OTHER -> FALSE

\* `not x` of Python: always a bool
Not(x) == IF Truthy(x) THEN False ELSE True

\* ------------------------------------------------------------------- Task
\* Task.__init__(description, completed=False)
NewTask(description, completed) ==
    [description |-> description, completed |-> completed]

\* A JSON array element as json.load returns it: a dict with the keys it
\* holds (ty = "dict"), or a value of another type (no keys).
Dict(keys, description, completed) ==
    [ty |-> "dict", keys |-> keys, description |-> description, completed |-> completed]
NonDict(ty) == [ty |-> ty, keys |-> {}, description |-> None, completed |-> None]

\* dict.get(key, default)
Get(d, key, default) ==
    IF key \in d.keys
    THEN (IF key = "description" THEN d.description ELSE d.completed)
    ELSE default

\* Task.to_dict
to_dict(task) ==
    Dict({"description", "completed"}, task.description, task.completed)

from_dict_no_completed(data) ==
    NewTask(Get(data, "description", Str("")), False)

\* Task.from_dict
from_dict(data) ==
    NewTask(Get(data, "description", Str("")), Get(data, "completed", False))

\* ---------------------------------------------------------- database file
Absent == [kind |-> "absent", top |-> "", elems |-> << >>]
NotJson == [kind |-> "invalid", top |-> "", elems |-> << >>]
\* A JSON document: the type of its top-level value and what iterating over
\* that value yields (the elements of a list, the characters of a str, the
\* keys of a dict; nothing for a value that cannot be iterated over).
Json(top, elems) == [kind |-> "json", top |-> top, elems |-> elems]

\* json.dump([task.to_dict() for task in self.tasks], f)
Dump(tasks) == Json("list", [k \in 1 .. Len(tasks) |-> to_dict(tasks[k])])

\* ---------------------------------------------------------- printed lines
Line(msg, index, old, new) == [msg |-> msg, index |-> index, old |-> old, new |-> new]
NotFoundLine == Line("NotFound", 0, None, None)
DecodeErrorLine == Line("DecodeError", 0, None, None)
ReadErrorLine == Line("ReadError", 0, None, None)
SaveErrorLine == Line("SaveError", 0, None, None)
InvalidLine(index) == Line("Invalid", index, None, None)
AddedLine(description) == Line("Added", 0, None, description)
UpdatedLine(index, old, new) == Line("Updated", index, old, new)
MarkedLine(index, status) == Line("Marked", index, None, Str(status))
DeletedLine(index, old) == Line("Deleted", index, old, None)

\* -------------------------------------------------------------- load_tasks
\* outcomes of opening and reading the file
ReadOutcomes == {"ok", "io_error"}

\* TodoList.load_tasks: the list it returns, what it prints, what it raises.
\* Iterating over a JSON number, null or boolean raises TypeError; calling
\* .get on an element that is not a dict raises AttributeError; neither is
\* caught by the two except clauses.
load_tasks(st, r) ==
    IF st.kind = "absent"
    THEN [tasks |-> << >>, out |-> <<NotFoundLine>>, raised |-> "none"]
    ELSE IF r = "io_error"
    THEN [tasks |-> << >>, out |-> <<ReadErrorLine>>, raised |-> "none"]
    ELSE IF st.kind = "invalid"
    THEN [tasks |-> << >>, out |-> <<DecodeErrorLine>>, raised |-> "none"]
    ELSE IF st.top \in {"int", "NoneType", "bool"}
    THEN [tasks |-> << >>, out |-> << >>, raised |-> "TypeError"]
    ELSE IF \E k \in 1 .. Len(st.elems) : st.elems[k].ty # "dict"
    THEN [tasks |-> << >>, out |-> << >>, raised |-> "AttributeError"]
    ELSE [tasks |-> [k \in 1 .. Len(st.elems) |-> from_dict(st.elems[k])],
          out |-> << >>, raised |-> "none"]

\* -------------------------------------------------------------- save_tasks
\* outcomes of open(filename, 'w') and json.dump: the write succeeds, open
\* raises IOError (the file is untouched), or the write raises IOError after
\* open truncated the file (a strict prefix of the document is left)
WriteOutcomes == {"ok", "open_failed", "write_failed"}

save_tasks_append(tasks, st, w) ==
    CASE w = "ok" ->
            [storage |-> IF st.kind = "absent" THEN Dump(tasks) ELSE NotJson,
             out |-> << >>]
      [] w = "open_failed" -> [storage |-> st, out |-> <<SaveErrorLine>>]
      [] OTHER -> [storage |-> NotJson, out |-> <<SaveErrorLine>>]

\* TodoList.save_tasks: the file afterwards and what it prints
save_tasks(tasks, st, w) ==
    CASE w = "ok" -> [storage |-> Dump(tasks), out |-> << >>]
      [] w = "open_failed" -> [storage |-> st, out |-> <<SaveErrorLine>>]
      [] OTHER -> [storage |-> NotJson, out |-> <<SaveErrorLine>>]

\* ------------------------------------------------------------ list helpers
InRange_no_lower(index, tasks) == index - 1 < Len(tasks)

\* the guard `0 <= task_index < len(self.tasks)` with task_index = index - 1
InRange(index, tasks) == 0 <= index - 1 /\ index - 1 < Len(tasks)

\* self.tasks[task_index] of a Python list, as a position of the sequence:
\* a negative index counts from the end; 0 stands for IndexError
PyPos(task_index, tasks) ==
    LET p == IF task_index >= 0 THEN task_index + 1 ELSE Len(tasks) + task_index + 1
    IN IF p \in 1 .. Len(tasks) THEN p ELSE 0

\* list.pop(position)
Pop(tasks, p) ==
    [k \in 1 .. Len(tasks) - 1 |-> IF k < p THEN tasks[k] ELSE tasks[k + 1]]

\* a call that ends in IndexError: nothing assigned, nothing saved or printed
RaiseIndexError(name) ==
    /\ called' = name
    /\ out' = << >>
    /\ ret' = << >>
    /\ raised' = "IndexError"
    /\ UNCHANGED <<storage, alive, items, failures>>

\* a call with a position the guard rejects
InvalidNumber(name, index) ==
    /\ called' = name
    /\ out' = <<InvalidLine(index)>>
    /\ ret' = << >>
    /\ raised' = "none"
    /\ UNCHANGED <<storage, alive, items, failures>>

\* a call that changed the list to tasks, saved it and printed line
Mutated(name, tasks, w, line) ==
    LET sv == save_tasks(tasks, storage, w)
    IN /\ w # "ok" => failures < MaxFailures
       /\ items' = tasks
       /\ storage' = sv.storage
       /\ failures' = (IF w = "ok" THEN failures ELSE failures + 1)
       /\ called' = name
       /\ out' = sv.out \o <<line>>
       /\ ret' = << >>
       /\ raised' = "none"
       /\ UNCHANGED alive

\* ------------------------------------------------------------------ actions
\* the database files the program may find when it starts
FullDict(description, completed) ==
    Dict({"description", "completed"}, Str(description), completed)

\* JSON arrays: empty; one well-formed object; an object without description,
\* with a key the program does not know and a number for completed, then a
\* well-formed one; an object whose description is null and nothing else;
\* a number; a well-formed object then a number
InitArrays ==
    { << >>,
      <<FullDict("b", True)>>,
      <<Dict({"completed", "other"}, None, IntVal), FullDict("a", False)>>,
      <<Dict({"description"}, None, None)>>,
      <<NonDict("int")>>,
      <<FullDict("a", False), NonDict("int")>> }

\* no file; a file that is not JSON; a JSON number, null, boolean; an empty
\* and a non-empty JSON string; an empty and a non-empty JSON object; arrays
InitStorages ==
    {Absent, NotJson}
    \cup { Json(t, << >>) : t \in {"int", "NoneType", "bool", "str", "dict"} }
    \cup { Json(t, <<NonDict("str")>>) : t \in {"str", "dict"} }
    \cup { Json("list", s) : s \in InitArrays }

Init ==
    /\ storage \in InitStorages
    /\ alive = FALSE
    /\ items = << >>
    /\ called = "none"
    /\ out = << >>
    /\ ret = << >>
    /\ raised = "none"
    /\ failures = 0

\* TodoList.__init__: self.tasks = self.load_tasks()
TodoList_init(r) ==
    LET ld == load_tasks(storage, r)
    IN /\ called' = "__init__"
       /\ items' = ld.tasks
       /\ out' = ld.out
       /\ raised' = ld.raised
       /\ alive' = (ld.raised = "none")
       /\ ret' = << >>
       /\ failures' = 0
       /\ UNCHANGED storage

add_task_prepend(description, w) ==
    /\ alive
    /\ Len(items) < MaxTasks
    /\ Mutated("add_task", <<NewTask(Str(description), False)>> \o items, w,
               AddedLine(Str(description)))

\* TodoList.add_task
add_task(description, w) ==
    /\ alive
    /\ Len(items) < MaxTasks
    /\ Mutated("add_task", Append(items, NewTask(Str(description), False)), w,
               AddedLine(Str(description)))

edit_task_new_object(index, new_description, w) ==
    /\ alive
    /\ IF InRange(index, items)
       THEN LET p == PyPos(index - 1, items)
            IN IF p = 0 THEN RaiseIndexError("edit_task")
               ELSE Mutated("edit_task",
                            [items EXCEPT ![p] = NewTask(Str(new_description), False)],
                            w, UpdatedLine(index, items[p].description, Str(new_description)))
       ELSE InvalidNumber("edit_task", index)

edit_task_no_save(index, new_description, w) ==
    /\ alive
    /\ IF InRange(index, items)
       THEN LET p == PyPos(index - 1, items)
            IN IF p = 0 THEN RaiseIndexError("edit_task")
               ELSE /\ items' = [items EXCEPT ![p].description = Str(new_description)]
                    /\ called' = "edit_task"
                    /\ out' = <<UpdatedLine(index, items[p].description, Str(new_description))>>
                    /\ ret' = << >>
                    /\ raised' = "none"
                    /\ UNCHANGED <<storage, alive, failures>>
       ELSE InvalidNumber("edit_task", index)

\* TodoList.edit_task
edit_task(index, new_description, w) ==
    /\ alive
    /\ IF InRange(index, items)
       THEN LET p == PyPos(index - 1, items)
            IN IF p = 0 THEN RaiseIndexError("edit_task")
               ELSE Mutated("edit_task",
                            [items EXCEPT ![p].description = Str(new_description)],
                            w, UpdatedLine(index, items[p].description, Str(new_description)))
       ELSE InvalidNumber("edit_task", index)

toggle_complete_set_true(index, w) ==
    /\ alive
    /\ IF InRange(index, items)
       THEN LET p == PyPos(index - 1, items)
            IN IF p = 0 THEN RaiseIndexError("toggle_complete")
               ELSE Mutated("toggle_complete", [items EXCEPT ![p].completed = True],
                            w, MarkedLine(index, "completed"))
       ELSE InvalidNumber("toggle_complete", index)

toggle_complete_rollback(index, w) ==
    /\ alive
    /\ IF InRange(index, items)
       THEN LET p == PyPos(index - 1, items)
                flipped == Not(items[p].completed)
            IN IF p = 0 THEN RaiseIndexError("toggle_complete")
               ELSE Mutated("toggle_complete",
                            IF w = "ok" THEN [items EXCEPT ![p].completed = flipped]
                            ELSE items,
                            w, MarkedLine(index, IF Truthy(flipped) THEN "completed" ELSE "pending"))
       ELSE InvalidNumber("toggle_complete", index)

\* TodoList.toggle_complete
toggle_complete(index, w) ==
    /\ alive
    /\ IF InRange(index, items)
       THEN LET p == PyPos(index - 1, items)
                flipped == Not(items[p].completed)
            IN IF p = 0 THEN RaiseIndexError("toggle_complete")
               ELSE Mutated("toggle_complete", [items EXCEPT ![p].completed = flipped],
                            w, MarkedLine(index, IF Truthy(flipped) THEN "completed" ELSE "pending"))
       ELSE InvalidNumber("toggle_complete", index)

delete_task_pop_last(index, w) ==
    /\ alive
    /\ IF InRange(index, items)
       THEN LET p == Len(items)
            IN IF p = 0 THEN RaiseIndexError("delete_task")
               ELSE Mutated("delete_task", Pop(items, p), w,
                            DeletedLine(index, items[p].description))
       ELSE InvalidNumber("delete_task", index)

\* TodoList.delete_task
delete_task(index, w) ==
    /\ alive
    /\ IF InRange(index, items)
       THEN LET p == PyPos(index - 1, items)
            IN IF p = 0 THEN RaiseIndexError("delete_task")
               ELSE Mutated("delete_task", Pop(items, p), w,
                            DeletedLine(index, items[p].description))
       ELSE InvalidNumber("delete_task", index)

\* every call, with every outcome of the file operations
Next ==
    \/ \E r \in ReadOutcomes : TodoList_init(r)
    \/ \E d \in Texts, w \in WriteOutcomes : add_task(d, w)
    \/ \E i \in Positions, d \in Texts, w \in WriteOutcomes : edit_task(i, d, w)
    \/ \E i \in Positions, w \in WriteOutcomes : toggle_complete(i, w)
    \/ \E i \in Positions, w \in WriteOutcomes : delete_task(i, w)

Spec == Init /\ [][Next]_vars

\* every call, when every write of the file succeeds
NextWriteOK ==
    \/ \E r \in ReadOutcomes : TodoList_init(r)
    \/ \E d \in Texts : add_task(d, "ok")
    \/ \E i \in Positions, d \in Texts : edit_task(i, d, "ok")
    \/ \E i \in Positions : toggle_complete(i, "ok")
    \/ \E i \in Positions : delete_task(i, "ok")

SpecWriteOK == Init /\ [][NextWriteOK]_vars

\* ------------------------------------------------------------------ claims
Mutators == {"add_task", "edit_task", "toggle_complete", "delete_task"}
Indexed == {"edit_task", "toggle_complete", "delete_task"}
\* the line a call printed last: its report of what it did
Report(o) == o[Len(o)]
\* the call printed a line saying that it changed the list
ReportsMutation(o) ==
    o # << >> /\ Report(o).msg \in {"Added", "Updated", "Marked", "Deleted"}
\* save_tasks printed its error line during the call
ReportsSaveError(o) == o # << >> /\ o[1].msg = "SaveError"

\* C1 (as stated): when every write succeeds, at the return of every
\* add/edit/toggle/delete call the database file holds exactly the
\* serialization of the in-memory list.
C1_StorageMatchesAfterEveryCall ==
    called \in Mutators => storage = Dump(items)

\* C1 (amended): when every write succeeds, every call that changes the list
\* leaves the file equal to the serialization of the list, and every later
\* call on that object (also one with an invalid position) keeps it so.
C1_StorageMatchesOnceMutated ==
    [][ called' \in Mutators =>
          ((ReportsMutation(out') \/ storage = Dump(items)) => storage' = Dump(items')) ]_vars

\* C1 witness: a call with an invalid position that follows a mutation, file
\* and list in step and not empty
C1_Witness ==
    /\ called \in Indexed
    /\ out = <<InvalidLine(0)>>
    /\ Len(items) = 2
    /\ storage = Dump(items)

\* C2 (as stated): load never raises; for every content of an existing file
\* that is not a JSON array of objects, it returns an empty list and prints
\* the decode-error notice.
C2_LoadCorruptGivesEmptyAndNotice ==
    (/\ called = "__init__"
     /\ storage.kind # "absent"
     /\ out # <<ReadErrorLine>>
     /\ \/ storage.kind = "invalid"
        \/ storage.top # "list"
        \/ \E k \in 1 .. Len(storage.elems) : storage.elems[k].ty # "dict")
    => (raised = "none" /\ alive /\ items = << >> /\ out = <<DecodeErrorLine>>)

\* C3: edit, toggle and delete with a position outside 1 .. len(items) leave
\* the list and the file as they were, print the invalid-number line and
\* nothing else (save_tasks is not called, so no save error either).
C3_InvalidPositionNoEffect ==
    [][ (called' \in Indexed /\ out' # << >> /\ Report(out').index \notin 1 .. Len(items)) =>
          (/\ items' = items
           /\ storage' = storage
           /\ failures' = failures
           /\ raised' = "none"
           /\ out' = <<InvalidLine(Report(out').index)>>) ]_vars

\* C3 witness: a negative position was rejected on a list of two tasks
C3_Witness ==
    /\ called = "delete_task"
    /\ out = <<InvalidLine(0 - 1)>>
    /\ Len(items) = 2

\* C4: edit with a valid position replaces the description at that position
\* and nothing else: same length, same completed flag there, every other
\* task as it was; the line printed gives the previous description.
C4_EditChangesOnlyText ==
    [][ (called' = "edit_task" /\ out' # << >> /\ Report(out').index \in 1 .. Len(items)) =>
          LET m == Report(out')
          IN /\ m.msg = "Updated"
             /\ Len(items') = Len(items)
             /\ items'[m.index].description = m.new
             /\ items'[m.index].completed = items[m.index].completed
             /\ \A k \in 1 .. Len(items) : k # m.index => items'[k] = items[k]
             /\ m.old = items[m.index].description ]_vars

\* C4 witness: the first of two tasks, completed, now reads "b" after "a"
C4_Witness ==
    /\ called = "edit_task"
    /\ Report(out) = UpdatedLine(1, Str("a"), Str("b"))
    /\ Len(items) = 2
    /\ items[1] = NewTask(Str("b"), True)

\* C5: delete with a valid position p removes exactly the task at p: the
\* list is one shorter, tasks before p stay, each task after p moves one
\* position down unchanged; the line printed gives the removed description.
C5_DeleteRemovesExactlyOne ==
    [][ (called' = "delete_task" /\ out' # << >> /\ Report(out').index \in 1 .. Len(items)) =>
          LET m == Report(out')
          IN /\ m.msg = "Deleted"
             /\ Len(items') = Len(items) - 1
             /\ \A k \in 1 .. Len(items) :
                   /\ k < m.index => items'[k] = items[k]
                   /\ k > m.index => items'[k - 1] = items[k]
             /\ m.old = items[m.index].description ]_vars

\* C5 witness: the first of two tasks was deleted, the second is now first
C5_Witness ==
    /\ called = "delete_task"
    /\ Report(out) = DeletedLine(1, Str("a"))
    /\ items = <<NewTask(Str("b"), False)>>

\* C6 (as stated): add appends a task with the given text and completed
\* false, and returns the new task's 1-based position.
C6_AddReturnsPosition ==
    called = "add_task" =>
        (/\ Len(items) >= 1
         /\ items[Len(items)] = NewTask(Report(out).new, False)
         /\ ret = <<Len(items)>>)

\* C6 (amended): add appends a task with the given text and completed false
\* at the end, leaves the tasks before it as they were, prints the text, and
\* returns nothing (None).
C6_AddAppends ==
    [][ called' = "add_task" =>
          (/\ ReportsMutation(out') /\ Report(out').msg = "Added"
           /\ Report(out').new.ty = "str"
           /\ items' = Append(items, NewTask(Report(out').new, False))
           /\ ret' = << >>
           /\ raised' = "none") ]_vars

\* C6 witness: "b" was added after an existing task "a"
C6_Witness ==
    /\ called = "add_task"
    /\ Report(out) = AddedLine(Str("b"))
    /\ Len(items) = 2
    /\ items[1].description = Str("a")
    /\ items[2] = NewTask(Str("b"), False)

\* C7: when the write fails during add, edit, toggle or delete with a valid
\* position, the call prints one save-error line (no retry), returns without
\* raising, the list holds the change, and the success line is the one the
\* call prints when the write succeeds.
C7_WriteFailureKeepsMutation ==
    [][ (called' \in Mutators /\ ReportsSaveError(out')) =>
          LET m == Report(out')
          IN /\ Len(out') = 2
             /\ failures' = failures + 1
             /\ raised' = "none"
             /\ ret' = << >>
             /\ alive'
             /\ \/ /\ called' = "add_task"
                   /\ m = AddedLine(m.new)
                   /\ items' = Append(items, NewTask(m.new, False))
                \/ /\ called' = "edit_task"
                   /\ m.index \in 1 .. Len(items)
                   /\ m = UpdatedLine(m.index, items[m.index].description, m.new)
                   /\ items' = [items EXCEPT ![m.index].description = m.new]
                \/ /\ called' = "toggle_complete"
                   /\ m.index \in 1 .. Len(items)
                   /\ m = MarkedLine(m.index,
                                     IF Truthy(items[m.index].completed)
                                     THEN "pending" ELSE "completed")
                   /\ items' = [items EXCEPT ![m.index].completed =
                                   IF Truthy(items[m.index].completed) THEN False ELSE True]
                \/ /\ called' = "delete_task"
                   /\ m.index \in 1 .. Len(items)
                   /\ m = DeletedLine(m.index, items[m.index].description)
                   /\ items' = SubSeq(items, 1, m.index - 1)
                                \o SubSeq(items, m.index + 1, Len(items)) ]_vars

\* C7 witness: a toggle whose write failed: the flag is set in memory, the
\* file still holds the task as pending
C7_Witness ==
    /\ called = "toggle_complete"
    /\ out = <<SaveErrorLine, MarkedLine(1, "completed")>>
    /\ items = <<NewTask(Str("a"), True)>>
    /\ storage = Dump(<<NewTask(Str("a"), False)>>)

\* C8: a new TodoList built on the file after a call that changed the list
\* and saved it (the read succeeding) holds the same tasks, field for field
\* and in the same order.
C8_PersistLoadRoundTrip ==
    [][ (/\ called \in Mutators /\ ReportsMutation(out) /\ ~ReportsSaveError(out)
         /\ called' = "__init__"
         /\ out' # <<ReadErrorLine>>) =>
          (alive' /\ raised' = "none" /\ out' = << >> /\ items' = items) ]_vars

\* C8 witness: a list of two different tasks, one completed, one whose fields
\* come from defaults and a non-boolean flag, reloaded from the file
C8_Witness ==
    /\ called = "__init__"
    /\ alive
    /\ Len(items) = 2
    /\ items[1].completed = IntVal
    /\ items[2] = NewTask(Str("b"), True)
    /\ storage = Dump(items)

\* C9: toggle with a valid position negates the completed flag at that
\* position and changes nothing else; the line printed says "completed"
\* (the spec's done) exactly when the flag is now true, "pending" otherwise.
C9_ToggleNegatesFlag ==
    [][ (called' = "toggle_complete" /\ out' # << >>
         /\ Report(out').index \in 1 .. Len(items)) =>
          LET m == Report(out')
          IN /\ m.msg = "Marked"
             /\ Len(items') = Len(items)
             /\ Truthy(items'[m.index].completed) = ~Truthy(items[m.index].completed)
             /\ items'[m.index].completed \in {True, False}
             /\ items'[m.index].description = items[m.index].description
             /\ \A k \in 1 .. Len(items) : k # m.index => items'[k] = items[k]
             /\ m.new \in {Str("completed"), Str("pending")}
             /\ (m.new = Str("completed")) = Truthy(items'[m.index].completed) ]_vars

\* C9 witness: the second task went back from completed to pending
C9_Witness ==
    /\ called = "toggle_complete"
    /\ out = <<MarkedLine(2, "pending")>>
    /\ Len(items) = 2
    /\ items[2].completed = False
    /\ items[1].completed = True

\* C10: after a call that changed the list and whose write succeeded, the
\* file holds the serialization of the whole list, also when writes of
\* earlier calls on the object failed.
C10_ReconvergesAfterFailure ==
    (called \in Mutators /\ ReportsMutation(out) /\ ~ReportsSaveError(out))
        => storage = Dump(items)

\* C10 witness: a write failed earlier, the last call's write succeeded, and
\* the file holds both tasks
C10_Witness ==
    /\ failures >= 1
    /\ called \in Mutators
    /\ ReportsMutation(out) /\ ~ReportsSaveError(out)
    /\ Len(items) = 2
    /\ storage = Dump(items)

====
